---- MODULE Spec2Model ----
(***************************************************************************)
(* urdf-simplifier (src/main.go): a one-shot batch transform of a URDF     *)
(* robot description.  main reads and parses the document, runs            *)
(* processLink on every link, runs filterToMainChain on the robot, and     *)
(* writes the result.  resolvePackageURI maps a mesh reference to a path.  *)
(*                                                                         *)
(* Conventions of the model                                                *)
(*  - a Go pointer *T is a sequence of length 0 (nil) or 1 (<<value>>);    *)
(*  - a Go slice is a sequence;                                            *)
(*  - a path or URI is a sequence of characters; the ten characters of     *)
(*    the literal "package://" are the three tokens "package:", "/", "/";  *)
(*  - the file system is the subtree below baseDir: a function from node   *)
(*    (a sequence of names) to its kind.                                   *)
(***************************************************************************)
EXTENDS Integers, Sequences, FiniteSets, TLC

VARIABLES
    pc,           \* where main is: "args", "read", "parse", "links", "write", "done"
    exitCode,     \* the exit status of the process, -1 while it runs
    fault,        \* what the environment refused: "none", "args", "read", "parse", "write"
    data,         \* the input document as read: Nil before the read
    robot,        \* the Robot being transformed in place
    i,            \* the index of main's loop over robot.Links
    stdout,       \* the lines printed
    oracleCalls,  \* the calls of the bounding-box library
    fs,           \* the file system below baseDir
    preFilter,    \* the Robot handed to filterToMainChain: Nil before the call
    output,       \* the document written: Nil when none was
    uri,          \* the argument of a call of resolvePackageURI
    resolved,     \* its result: Nil before the call
    visited       \* the number of callbacks of its walk

vars == <<pc, exitCode, fault, data, robot, i, stdout, oracleCalls, fs, preFilter,
          output, uri, resolved, visited>>

(***************************************************************************)
(* Bounds of the model.                                                    *)
(***************************************************************************)
MaxLinks == 2
MaxJoints == 2
MaxColl == 3
MaxUriLen == 5

Nil == <<>>
Ptr(v) == <<v>>
IsNil(p) == Len(p) = 0
Deref(p) == p[1]
Opt(S) == {Nil} \cup {Ptr(v) : v \in S}

SeqsUpTo(S, n) == UNION {[1..k -> S] : k \in 0..n}

(***************************************************************************)
(* strings and path/filepath                                               *)
(***************************************************************************)
Slash == "/"
PackagePrefix == <<"package:", "/", "/">>

HasPrefix(s, p) == Len(s) >= Len(p) /\ SubSeq(s, 1, Len(p)) = p

HasSuffix(s, p) == Len(s) >= Len(p) /\ SubSeq(s, Len(s) - Len(p) + 1, Len(s)) = p

TrimPrefix(s, p) == IF HasPrefix(s, p) THEN SubSeq(s, Len(p) + 1, Len(s)) ELSE s

\* position of the first "/" of s, 0 when there is none
IndexSlash(s) ==
    IF \E k \in 1..Len(s) : s[k] = Slash
    THEN CHOOSE k \in 1..Len(s) : s[k] = Slash /\ \A j \in 1..(k - 1) : s[j] # Slash
    ELSE 0

\* strings.SplitN(s, "/", 2)
SplitN2(s) ==
    IF IndexSlash(s) = 0 THEN <<s>>
    ELSE <<SubSeq(s, 1, IndexSlash(s) - 1), SubSeq(s, IndexSlash(s) + 1, Len(s))>>

\* the non-empty "/"-separated components of s
RECURSIVE Components(_)
Components(s) ==
    IF Len(s) = 0 THEN <<>>
    ELSE IF IndexSlash(s) = 0 THEN <<s>>
    ELSE IF IndexSlash(s) = 1 THEN Components(Tail(s))
    ELSE <<SubSeq(s, 1, IndexSlash(s) - 1)>> \o Components(SubSeq(s, IndexSlash(s) + 1, Len(s)))

RECURSIVE JoinComponents(_)
JoinComponents(cs) ==
    IF Len(cs) = 0 THEN <<>>
    ELSE IF Len(cs) = 1 THEN cs[1]
    ELSE cs[1] \o <<Slash>> \o JoinComponents(Tail(cs))

\* filepath.Clean on paths without "." and ".." elements
Clean(p) ==
    LET rooted == Len(p) > 0 /\ p[1] = Slash
        body == JoinComponents(Components(p))
        out == IF rooted THEN <<Slash>> \o body ELSE body
    IN IF Len(out) = 0 THEN <<".">> ELSE out

\* filepath.Join(a, b): empty elements are ignored, the result is cleaned
Join(a, b) ==
    IF Len(a) = 0 /\ Len(b) = 0 THEN <<>>
    ELSE IF Len(a) = 0 THEN Clean(b)
    ELSE IF Len(b) = 0 THEN Clean(a)
    ELSE Clean(a \o <<Slash>> \o b)

IsAbs(p) == Len(p) > 0 /\ p[1] = Slash

(***************************************************************************)
(* The file system below baseDir.  Names is the universe of entry names,   *)
(* Nodes the universe of entries (the empty node is baseDir itself).       *)
(***************************************************************************)
BaseDir == <<"/", "a">>
Names == {<<"a">>, <<"b", "a">>}
Nodes == {<<>>} \cup {<<n>> : n \in Names} \cup {<<n, m>> : n \in Names, m \in Names}
Kinds == {"none", "dir", "stl", "junk"}

Parent(n) == SubSeq(n, 1, Len(n) - 1)

\* an entry exists only inside a directory that exists
WellFormedFS(f) == \A n \in Nodes : (n # <<>> /\ f[n] # "none") => f[Parent(n)] = "dir"

FileSystems(kinds) == {f \in [Nodes -> kinds] : f[<<>>] \in {"none", "dir"} /\ WellFormedFS(f)}

CharRank == [c \in {"a", "b"} |-> IF c = "a" THEN 1 ELSE 2]

\* byte-wise order of two names, as sort.Strings orders the entries of a directory
RECURSIVE LexLess(_, _)
LexLess(s, t) ==
    IF Len(t) = 0 THEN FALSE
    ELSE IF Len(s) = 0 THEN TRUE
    ELSE IF s[1] # t[1] THEN CharRank[s[1]] < CharRank[t[1]]
    ELSE LexLess(Tail(s), Tail(t))

RECURSIVE SortNames(_)
SortNames(S) ==
    IF S = {} THEN <<>>
    ELSE LET m == CHOOSE x \in S : \A y \in S \ {x} : LexLess(x, y)
         IN <<m>> \o SortNames(S \ {m})

\* the path filepath.Walk hands to its callback for entry n
NodePath(n) ==
    IF Len(n) = 0 THEN BaseDir
    ELSE IF Len(n) = 1 THEN Join(BaseDir, n[1])
    ELSE Join(Join(BaseDir, n[1]), n[2])

\* the kind of what a path names, as the kernel resolves it: repeated and
\* trailing slashes are ignored, but a trailing slash needs a directory
Lookup(f, path) ==
    LET cs == Components(path)
        base == Components(BaseDir)
        k == IF ~IsAbs(path) THEN "none"
             ELSE IF Len(cs) < Len(base) THEN
                  (IF cs = SubSeq(base, 1, Len(cs)) /\ (Len(cs) = 0 \/ f[<<>>] = "dir") THEN "dir" ELSE "none")
             ELSE IF SubSeq(cs, 1, Len(base)) # base THEN "none"
             ELSE IF SubSeq(cs, Len(base) + 1, Len(cs)) \in Nodes
                  THEN f[SubSeq(cs, Len(base) + 1, Len(cs))] ELSE "none"
    IN IF k \in {"stl", "junk"} /\ path[Len(path)] = Slash THEN "none" ELSE k

\* os.Stat(path) returned no error
StatOK(f, path) == Lookup(f, path) # "none"

\* the entries filepath.Walk visits below entry n (n included), in its order:
\* pre-order, the names of a directory in sorted order
RECURSIVE WalkOrder(_, _)
WalkOrder(f, n) ==
    LET names == SortNames({m \in Names : Append(n, m) \in Nodes /\ f[Append(n, m)] # "none"})
        sub[k \in 0..Len(names)] ==
            IF k = 0 THEN <<>> ELSE sub[k - 1] \o WalkOrder(f, Append(n, names[k]))
    IN <<n>> \o (IF f[n] = "dir" THEN sub[Len(names)] ELSE <<>>)

\* the callback of filepath.Walk in resolvePackageURI, run over the entries
\* from position k on: the first entry that is not a directory and whose
\* path ends with relativePath sets foundPath and ends the walk (SkipAll).
\* callbacks counts the entries the callback was called for.
RECURSIVE WalkFrom(_, _, _, _)

\* WalkFrom without the SkipAll: the walk goes on and the last match wins
RECURSIVE WalkFromNoSkip(_, _, _, _)
WalkFromNoSkip(f, order, k, relativePath) ==
    IF k > Len(order) THEN [foundPath |-> <<>>, callbacks |-> k - 1]
    ELSE IF f[order[k]] # "dir" /\ HasSuffix(NodePath(order[k]), relativePath)
            /\ WalkFromNoSkip(f, order, k + 1, relativePath).foundPath = <<>>
    THEN [foundPath |-> NodePath(order[k]), callbacks |-> Len(order)]
    ELSE WalkFromNoSkip(f, order, k + 1, relativePath)

WalkFrom(f, order, k, relativePath) ==
    IF k > Len(order) THEN [foundPath |-> <<>>, callbacks |-> k - 1]
    ELSE IF f[order[k]] # "dir" /\ HasSuffix(NodePath(order[k]), relativePath)
    THEN [foundPath |-> NodePath(order[k]), callbacks |-> k]
    ELSE WalkFrom(f, order, k + 1, relativePath)

\* filepath.Walk(baseDir, fn): a root that cannot be stat'ed gets one callback
\* with the error, which it ignores
Walk(f, relativePath) ==
    IF f[<<>>] = "none" THEN [foundPath |-> <<>>, callbacks |-> 1]
    ELSE WalkFrom(f, WalkOrder(f, <<>>), 1, relativePath)

\* the relativePath of a package:// URI: the text after "package://" with
\* its first component (the package name) stripped when there is one
RelativePath(u) ==
    LET rel == TrimPrefix(u, PackagePrefix)
        parts == SplitN2(rel)
    IN IF Len(parts) = 2 THEN parts[2] ELSE rel

resolvePackageURI(u, f) ==
    IF HasPrefix(u, PackagePrefix) THEN
        LET relativePath == RelativePath(u)
            standardPath == Join(BaseDir, relativePath)
            foundPath == Walk(f, relativePath).foundPath
        IN IF StatOK(f, standardPath) THEN standardPath
           ELSE IF foundPath # <<>> THEN foundPath
           ELSE standardPath
    ELSE IF IsAbs(u) THEN u
    ELSE Join(BaseDir, u)

\* the number of callbacks of the walk resolvePackageURI(u, f) runs
WalkCallbacks(u, f) ==
    IF HasPrefix(u, PackagePrefix) /\ ~StatOK(f, Join(BaseDir, RelativePath(u)))
    THEN Walk(f, RelativePath(u)).callbacks ELSE 0

(***************************************************************************)
(* The document model (the URDF structures).  Fields the program never     *)
(* reads or writes (Robot.Name, Mass, Inertia, Axis, Limit, Dynamics,      *)
(* Joint.Origin) are left out.                                             *)
(***************************************************************************)
MkOrigin(rpy, xyz) == [RPY |-> rpy, XYZ |-> xyz]
MkMesh(filename) == [Filename |-> filename]
MkBox(size) == [Size |-> size]
MkGeometry(mesh, box) == [Mesh |-> mesh, Box |-> box]
MkCollision(origin, geometry) == [Origin |-> origin, Geometry |-> geometry]
MkVisual(origin, geometry) == [Origin |-> origin, Geometry |-> geometry]
MkInertial(origin) == [Origin |-> origin]
MkLink(name, visual, collision, inertial, origin) ==
    [Name |-> name, Visual |-> visual, Collision |-> collision, Inertial |-> inertial, Origin |-> origin]
MkJoint(name, type, parent, child) == [Name |-> name, Type |-> type, Parent |-> parent, Child |-> child]
MkRobot(links, joints) == [Links |-> links, Joints |-> joints]

(***************************************************************************)
(* The bounding-box library (github.com/nfranczak/stl-bounding-box), an    *)
(* external capability: it succeeds on a file that is an STL mesh and      *)
(* fails on a missing file, a directory or a file of another format.       *)
(***************************************************************************)
CalculateBoundingBoxFromFile(f, path) ==
    IF Lookup(f, path) = "stl"
    THEN [err |-> FALSE, width |-> Len(path), height |-> 2, depth |-> 3,
          center |-> <<1, 0 - Len(path), 0>>]
    ELSE [err |-> TRUE, width |-> 0, height |-> 0, depth |-> 0, center |-> <<0, 0, 0>>]

\* fmt.Sprintf("%f", v) for a whole number v
FormatF(v) == ToString(v) \o ".000000"

\* fmt.Sprintf("%f %f %f", x, y, z)
FormatTriple(x, y, z) == FormatF(x) \o " " \o FormatF(y) \o " " \o FormatF(z)

Msg(kind, link, entry, arg) == [kind |-> kind, link |-> link, entry |-> entry, arg |-> arg]

(***************************************************************************)
(* processLink, the body of its loop over link.Collision for one entry c:  *)
(* the entry afterwards, the lines printed and the oracle calls made.      *)
(* li and k (the position of the link and of the entry) only label the     *)
(* printed lines and the calls.                                            *)
(***************************************************************************)
\* MeshKept putting a box without extent in the place of the mesh
MeshKeptAsEmptyBox(c, filename, stlPath, li, k) ==
    [c |-> MkCollision(c.Origin, Ptr(MkGeometry(Nil, Ptr(MkBox(FormatTriple(0, 0, 0)))))),
     out |-> <<Msg("stlPath", li, k, stlPath), Msg("Warning", li, k, filename)>>,
     calls |-> <<[link |-> li, entry |-> k, path |-> stlPath]>>]

\* the branch taken when the library returned an error: the warning, continue
MeshKept(c, filename, stlPath, li, k) ==
    [c |-> c,
     out |-> <<Msg("stlPath", li, k, stlPath), Msg("Warning", li, k, filename)>>,
     calls |-> <<[link |-> li, entry |-> k, path |-> stlPath]>>]

\* MeshReplaced with the assignment of Geometry.Box left out
MeshReplacedNoBox(c, stlPath, bbox, li, k) ==
    [c |-> MkCollision(
              Ptr(MkOrigin(IF IsNil(c.Origin) THEN "" ELSE Deref(c.Origin).RPY,
                           FormatTriple(bbox.center[1], bbox.center[2], bbox.center[3]))),
              Ptr(MkGeometry(Nil, Deref(c.Geometry).Box))),
     out |-> <<Msg("stlPath", li, k, stlPath), Msg("Replaced", li, k, stlPath),
               Msg("Set", li, k, <<>>), Msg("blank", li, k, <<>>)>>,
     calls |-> <<[link |-> li, entry |-> k, path |-> stlPath]>>]

\* MeshReplaced with the assignment Geometry.Mesh = nil left out
MeshReplacedKeepMesh(c, stlPath, bbox, li, k) ==
    [c |-> MkCollision(
              Ptr(MkOrigin(IF IsNil(c.Origin) THEN "" ELSE Deref(c.Origin).RPY,
                           FormatTriple(bbox.center[1], bbox.center[2], bbox.center[3]))),
              Ptr(MkGeometry(Deref(c.Geometry).Mesh,
                             Ptr(MkBox(FormatTriple(bbox.width, bbox.height, bbox.depth)))))),
     out |-> <<Msg("stlPath", li, k, stlPath), Msg("Replaced", li, k, stlPath),
               Msg("Set", li, k, <<>>), Msg("blank", li, k, <<>>)>>,
     calls |-> <<[link |-> li, entry |-> k, path |-> stlPath]>>]

\* the rest of the loop body: the mesh is replaced by a box of the bounding
\* box's dimensions and the origin's xyz is set to its center
MeshReplaced(c, stlPath, bbox, li, k) ==
    [c |-> MkCollision(
              Ptr(MkOrigin(IF IsNil(c.Origin) THEN "" ELSE Deref(c.Origin).RPY,
                           FormatTriple(bbox.center[1], bbox.center[2], bbox.center[3]))),
              Ptr(MkGeometry(Nil, Ptr(MkBox(FormatTriple(bbox.width, bbox.height, bbox.depth)))))),
     out |-> <<Msg("stlPath", li, k, stlPath), Msg("Replaced", li, k, stlPath),
               Msg("Set", li, k, <<>>), Msg("blank", li, k, <<>>)>>,
     calls |-> <<[link |-> li, entry |-> k, path |-> stlPath]>>]

\* bbox, err := stl.CalculateBoundingBoxFromFile(stlPath); if err != nil { ... continue }
OnBoundingBox(c, filename, stlPath, bbox, li, k) ==
    IF bbox.err THEN MeshKept(c, filename, stlPath, li, k)
    ELSE MeshReplaced(c, stlPath, bbox, li, k)

\* stlPath := resolvePackageURI(mesh.Filename, baseDir)
OnResolved(c, f, filename, stlPath, li, k) ==
    OnBoundingBox(c, filename, stlPath, CalculateBoundingBoxFromFile(f, stlPath), li, k)

processCollision(c, f, li, k) ==
    IF ~IsNil(c.Geometry) /\ ~IsNil(Deref(c.Geometry).Mesh)
    THEN OnResolved(c, f, Deref(Deref(c.Geometry).Mesh).Filename,
                    resolvePackageURI(Deref(Deref(c.Geometry).Mesh).Filename, f), li, k)
    ELSE [c |-> c, out |-> <<>>, calls |-> <<>>]

\* what the iterations so far have done, and one more
Iterate(acc, r) ==
    [cs |-> Append(acc.cs, r.c), out |-> acc.out \o r.out, calls |-> acc.calls \o r.calls]

RECURSIVE CollisionLoop(_, _, _, _)

HasWarning(out) == \E m \in 1..Len(out) : out[m].kind = "Warning"

\* CollisionLoop with a break in the place of the continue: the entries after
\* the first failure are left as they are
RECURSIVE CollisionLoopBreak(_, _, _, _)
CollisionLoopBreak(collision, f, li, k) ==
    IF k = 0 THEN [cs |-> <<>>, out |-> <<>>, calls |-> <<>>]
    ELSE IF HasWarning(CollisionLoopBreak(collision, f, li, k - 1).out)
    THEN Iterate(CollisionLoopBreak(collision, f, li, k - 1),
                 [c |-> collision[k], out |-> <<>>, calls |-> <<>>])
    ELSE Iterate(CollisionLoopBreak(collision, f, li, k - 1), processCollision(collision[k], f, li, k))

\* for i := range link.Collision { ... }
CollisionLoop(collision, f, li, k) ==
    IF k = 0 THEN [cs |-> <<>>, out |-> <<>>, calls |-> <<>>]
    ELSE Iterate(CollisionLoop(collision, f, li, k - 1), processCollision(collision[k], f, li, k))

\* LinkAfter with the inertial block removed before its origin is moved
LinkAfterInertialFirst(link, loop) ==
    [link |-> MkLink(link.Name, <<>>, loop.cs, Nil, link.Origin),
     out |-> loop.out,
     calls |-> loop.calls]

\* the link after steps 1.3 and 1.4 and the loop
LinkAfter(link, loop) ==
    [link |-> MkLink(link.Name,
                     <<>>,
                     loop.cs,
                     Nil,
                     IF ~IsNil(link.Inertial) /\ ~IsNil(Deref(link.Inertial).Origin)
                     THEN Deref(link.Inertial).Origin ELSE link.Origin),
     out |-> loop.out,
     calls |-> loop.calls]

processLink(link, f, li) == LinkAfter(link, CollisionLoop(link.Collision, f, li, Len(link.Collision)))

(***************************************************************************)
(* filterToMainChain                                                       *)
(***************************************************************************)
\* IsMainType taking "continuous" for an actuated type as well
IsMainTypeOrContinuous(type) == type = "revolute" \/ type = "prismatic" \/ type = "continuous"

IsMainType(type) == type = "revolute" \/ type = "prismatic"

\* the first loop: mainJoints
RECURSIVE MainJoints(_)
MainJoints(joints) ==
    IF Len(joints) = 0 THEN <<>>
    ELSE IF IsMainType(Head(joints).Type)
    THEN <<Head(joints)>> \o MainJoints(Tail(joints))
    ELSE MainJoints(Tail(joints))

\* LinkSet forgetting the child links
LinkSetParents(mainJoints) ==
    {Deref(mainJoints[k].Parent).Link : k \in {j \in 1..Len(mainJoints) : ~IsNil(mainJoints[j].Parent)}}

\* the second loop: linkSet
LinkSet(mainJoints) ==
    {Deref(mainJoints[k].Parent).Link : k \in {j \in 1..Len(mainJoints) : ~IsNil(mainJoints[j].Parent)}}
    \cup {Deref(mainJoints[k].Child).Link : k \in {j \in 1..Len(mainJoints) : ~IsNil(mainJoints[j].Child)}}

\* the third loop: filteredLinks
RECURSIVE FilteredLinks(_, _)
FilteredLinks(links, linkSet) ==
    IF Len(links) = 0 THEN <<>>
    ELSE IF Head(links).Name \in linkSet
    THEN <<Head(links)>> \o FilteredLinks(Tail(links), linkSet)
    ELSE FilteredLinks(Tail(links), linkSet)

\* filterToMainChain building linkSet from robot.Joints instead of mainJoints
filterByAllJoints(r) ==
    MkRobot(FilteredLinks(r.Links, LinkSet(r.Joints)), MainJoints(r.Joints))

filterToMainChain(r) ==
    MkRobot(FilteredLinks(r.Links, LinkSet(MainJoints(r.Joints))), MainJoints(r.Joints))

(***************************************************************************)
(* xml.MarshalIndent(robot): the element tree written.  A nil pointer and  *)
(* an empty slice write nothing; an attribute marked omitempty is left out *)
(* when empty.  An attribute value is a sequence of tokens, the empty      *)
(* string being the empty sequence.  For the types of this program         *)
(* (strings, floats, pointers to structs) encoding/xml has no failing      *)
(* case, so the error branch after the call is never taken.                *)
(***************************************************************************)
Str(s) == IF s = "" THEN <<>> ELSE <<s>>
Attr(name, value) == [name |-> name, value |-> value]
El(tag, attrs, children) == [tag |-> tag, attrs |-> attrs, children |-> children]

XmlOrigin(o) ==
    El("origin",
       (IF o.RPY = "" THEN <<>> ELSE <<Attr("rpy", Str(o.RPY))>>)
       \o (IF o.XYZ = "" THEN <<>> ELSE <<Attr("xyz", Str(o.XYZ))>>),
       <<>>)

XmlOpt(p, X(_)) == IF IsNil(p) THEN <<>> ELSE <<X(Deref(p))>>

XmlMesh(m) == El("mesh", <<Attr("filename", m.Filename)>>, <<>>)

XmlBox(b) == El("box", <<Attr("size", Str(b.Size))>>, <<>>)

XmlGeometry(g) == El("geometry", <<>>, XmlOpt(g.Mesh, XmlMesh) \o XmlOpt(g.Box, XmlBox))

XmlShape(tag, c) == El(tag, <<>>, XmlOpt(c.Origin, XmlOrigin) \o XmlOpt(c.Geometry, XmlGeometry))

XmlInertial(n) == El("inertial", <<>>, XmlOpt(n.Origin, XmlOrigin))

XmlLink(l) ==
    El("link", <<Attr("name", Str(l.Name))>>,
       [k \in 1..Len(l.Visual) |-> XmlShape("visual", l.Visual[k])]
       \o [k \in 1..Len(l.Collision) |-> XmlShape("collision", l.Collision[k])]
       \o XmlOpt(l.Inertial, XmlInertial)
       \o XmlOpt(l.Origin, XmlOrigin))

XmlEnd(tag, e) == El(tag, <<Attr("link", Str(e.Link))>>, <<>>)

XmlParent(e) == XmlEnd("parent", e)

XmlChild(e) == XmlEnd("child", e)

XmlJoint(j) ==
    El("joint", <<Attr("name", Str(j.Name)), Attr("type", Str(j.Type))>>,
       XmlOpt(j.Parent, XmlParent) \o XmlOpt(j.Child, XmlChild))

MarshalIndent(r) ==
    El("robot", <<>>,
       [k \in 1..Len(r.Links) |-> XmlLink(r.Links[k])]
       \o [k \in 1..Len(r.Joints) |-> XmlJoint(r.Joints[k])])

(***************************************************************************)
(* The input documents of the runs explored, as xml.Unmarshal yields them: *)
(* an absent child element is a nil pointer, a child element the structs   *)
(* do not name (a cylinder, a sphere) is skipped, so a <geometry> may      *)
(* parse to a Geometry with neither Mesh nor Box, and one that holds both  *)
(* children to a Geometry with both.                                       *)
(***************************************************************************)
\* the file system of a run of main: /a/ba/a is a mesh, /a/ba/ba is not one
MeshTree ==
    [n \in Nodes |->
        IF n = <<>> \/ n = <<(<<"b", "a">>)>> THEN "dir"
        ELSE IF n = <<(<<"b", "a">>), <<"a">>>> THEN "stl"
        ELSE IF n = <<(<<"b", "a">>), <<"b", "a">>>> THEN "junk"
        ELSE "none"]

UriWalk == PackagePrefix \o <<"a", "/", "a">>          \* found by the walk: /a/ba/a
UriRel == <<"b", "a", "/", "a">>                      \* relative: /a/ba/a
UriJunk == PackagePrefix \o <<"a", "/", "b", "a", "/", "b", "a">>  \* exists, no mesh
UriMissing == <<"b">>                                 \* names no file

OriginL == MkOrigin("0 0 1", "4 5 6")
OriginI == MkOrigin("0 0 0", "1 2 3")
OriginC == MkOrigin("0 1 0", "7 8 9")
Box0 == MkBox("1 1 1")

MeshGeometry(u) == Ptr(MkGeometry(Ptr(MkMesh(u)), Nil))

CollisionChoices ==
    { MkCollision(Nil, MeshGeometry(UriWalk)),
      MkCollision(Ptr(OriginC), MeshGeometry(UriRel)),
      MkCollision(Ptr(OriginC), MeshGeometry(UriMissing)),
      MkCollision(Nil, Ptr(MkGeometry(Ptr(MkMesh(UriJunk)), Ptr(Box0)))),
      MkCollision(Nil, Ptr(MkGeometry(Nil, Nil))),
      MkCollision(Ptr(OriginC), Ptr(MkGeometry(Nil, Ptr(Box0)))),
      MkCollision(Nil, Nil) }

Visual0 == MkVisual(Nil, MeshGeometry(UriRel))

JointAB(type) == MkJoint("j", type, Ptr([Link |-> "A"]), Ptr([Link |-> "B"]))

\* documents of collision entries: link A alone with at most MaxColl
\* entries, or link A with fewer and a link B with at most one; B is on the
\* chain, or off it, or no link is
MeshLinks ==
    {<<>>}
    \cup {<<MkLink("A", <<Visual0>>, cs, Ptr(MkInertial(Ptr(OriginI))), Nil)>> :
            cs \in SeqsUpTo(CollisionChoices, MaxColl)}
    \cup {<<MkLink("A", <<Visual0>>, ca, Ptr(MkInertial(Ptr(OriginI))), Nil),
            MkLink("B", <<>>, cb, Nil, Ptr(OriginL))>> :
                ca \in SeqsUpTo(CollisionChoices, MaxColl - 1),
                cb \in SeqsUpTo(CollisionChoices, 1)}

MeshJoints ==
    { <<JointAB("revolute")>>,
      <<MkJoint("j", "prismatic", Ptr([Link |-> "A"]), Nil)>>,
      <<JointAB("fixed")>> }

MeshDocs == {MkRobot(ls, js) : ls \in MeshLinks, js \in MeshJoints}

\* documents of origins: at most MaxLinks links, each with or without
\* visuals, an inertial block, an inertial origin and an origin of its own
OriginLinkChoices ==
    {MkLink("A", v, <<>>, t, o) :
        v \in {<<>>, <<Visual0>>},
        t \in {Nil, Ptr(MkInertial(Nil)), Ptr(MkInertial(Ptr(OriginI)))},
        o \in {Nil, Ptr(OriginL)}}

OriginDocs == {MkRobot(ls, <<JointAB("revolute")>>) : ls \in SeqsUpTo(OriginLinkChoices, MaxLinks)}

\* documents of chains: at most MaxLinks links and MaxJoints joints of any
\* type, with parent and child references present, absent or dangling
\* ("D" names no link)
JointTypes == {"revolute", "prismatic", "continuous", "fixed", "Revolute"}

JointEnds ==
    { <<Ptr([Link |-> "A"]), Ptr([Link |-> "B"])>>,
      <<Ptr([Link |-> "B"]), Ptr([Link |-> "D"])>>,
      <<Nil, Ptr([Link |-> "A"])>> }

\* a joint of a main type with any of the references, a joint of another
\* type from A to B
ChainJointChoices ==
    {MkJoint("j", t, e[1], e[2]) : t \in {"revolute", "prismatic"}, e \in JointEnds}
    \cup {JointAB(t) : t \in JointTypes \ {"revolute", "prismatic"}}

ChainLinkChoices == {MkLink(n, <<>>, <<>>, Nil, Nil) : n \in {"A", "B"}}

ChainDocs ==
    {MkRobot(ls, js) : ls \in SeqsUpTo(ChainLinkChoices, MaxLinks),
                       js \in SeqsUpTo(ChainJointChoices, MaxJoints)}

Docs == MeshDocs \cup OriginDocs \cup ChainDocs

WellFormed(r) == [wellFormed |-> TRUE, robot |-> r]
Malformed == [wellFormed |-> FALSE, robot |-> MkRobot(<<>>, <<>>)]

(***************************************************************************)
(* main                                                                    *)
(***************************************************************************)
WriteLine(line) == stdout' = Append(stdout, line)

\* os.Exit(code), and the return from main
Exit(code) == pc' = "done" /\ exitCode' = code

Init ==
    /\ pc = "args"
    /\ exitCode = -1
    /\ fault = "none"
    /\ data = Nil
    /\ robot = MkRobot(<<>>, <<>>)
    /\ i = 0
    /\ stdout = <<>>
    /\ oracleCalls = <<>>
    /\ fs = MeshTree
    /\ preFilter = Nil
    /\ output = Nil
    /\ uri = <<>>
    /\ resolved = Nil
    /\ visited = 0

\* if len(os.Args) < 3 { usage; os.Exit(1) }
CheckArgs ==
    /\ pc = "args"
    /\ \E argc \in 1..3 :
        IF argc < 3
        THEN /\ fault' = "args"
             /\ WriteLine(Msg("Usage", 0, 0, <<>>))
             /\ Exit(1)
        ELSE /\ pc' = "read"
             /\ UNCHANGED <<fault, stdout, exitCode>>
    /\ UNCHANGED <<data, robot, i, oracleCalls, fs, preFilter, output, uri, resolved, visited>>

\* data, err := os.ReadFile(inputPath)
ReadFile ==
    /\ pc = "read"
    /\ \/ /\ fault' = "read"
          /\ WriteLine(Msg("Error reading input file", 0, 0, <<>>))
          /\ Exit(1)
          /\ UNCHANGED data
       \/ /\ \E d \in {WellFormed(r) : r \in Docs} \cup {Malformed} : data' = Ptr(d)
          /\ pc' = "parse"
          /\ UNCHANGED <<fault, stdout, exitCode>>
    /\ UNCHANGED <<robot, i, oracleCalls, fs, preFilter, output, uri, resolved, visited>>

\* xml.Unmarshal(data, &robot)
Parse ==
    /\ pc = "parse"
    /\ IF ~Deref(data).wellFormed
       THEN /\ fault' = "parse"
            /\ WriteLine(Msg("Error parsing URDF", 0, 0, <<>>))
            /\ Exit(1)
            /\ UNCHANGED <<robot, i>>
       ELSE /\ robot' = Deref(data).robot
            /\ i' = 1
            /\ pc' = "links"
            /\ UNCHANGED <<fault, stdout, exitCode>>
    /\ UNCHANGED <<data, oracleCalls, fs, preFilter, output, uri, resolved, visited>>

\* the effect of one call of processLink on the state of main
Processed(r) ==
    /\ robot' = [robot EXCEPT !.Links[i] = r.link]
    /\ stdout' = stdout \o r.out
    /\ oracleCalls' = oracleCalls \o r.calls

\* one iteration of: for i := range robot.Links { processLink(&robot.Links[i], baseDir) }
ProcessLinks ==
    /\ pc = "links"
    /\ i <= Len(robot.Links)
    /\ Processed(processLink(robot.Links[i], fs, i))
    /\ i' = i + 1
    /\ UNCHANGED <<pc, exitCode, fault, data, fs, preFilter, output, uri, resolved, visited>>

\* the end of the loop and filterToMainChain(&robot)
FilterToMainChain ==
    /\ pc = "links"
    /\ i > Len(robot.Links)
    /\ preFilter' = Ptr(robot)
    /\ robot' = filterToMainChain(robot)
    /\ WriteLine(Msg("Filtered to main kinematic chain", Len(robot'.Links), Len(robot'.Joints), <<>>))
    /\ pc' = "write"
    /\ UNCHANGED <<exitCode, fault, data, i, oracleCalls, fs, output, uri, resolved, visited>>

\* WriteFile without the os.Exit(1) after the error message
WriteFileNoExit ==
    /\ pc = "write"
    /\ \/ /\ fault' = "write"
          /\ WriteLine(Msg("Error writing output file", 0, 0, <<>>))
          /\ Exit(0)
          /\ UNCHANGED output
       \/ /\ output' = Ptr(MarshalIndent(robot))
          /\ WriteLine(Msg("Successfully simplified URDF", 0, 0, <<>>))
          /\ Exit(0)
          /\ UNCHANGED fault
    /\ UNCHANGED <<data, robot, i, oracleCalls, fs, preFilter, uri, resolved, visited>>

\* xml.MarshalIndent and os.WriteFile(outputPath, finalOutput, 0644)
WriteFile ==
    /\ pc = "write"
    /\ \/ /\ fault' = "write"
          /\ WriteLine(Msg("Error writing output file", 0, 0, <<>>))
          /\ Exit(1)
          /\ UNCHANGED output
       \/ /\ output' = Ptr(MarshalIndent(robot))
          /\ WriteLine(Msg("Successfully simplified URDF", 0, 0, <<>>))
          /\ Exit(0)
          /\ UNCHANGED fault
    /\ UNCHANGED <<data, robot, i, oracleCalls, fs, preFilter, uri, resolved, visited>>

Next == CheckArgs \/ ReadFile \/ Parse \/ ProcessLinks \/ FilterToMainChain \/ WriteFile

Spec == Init /\ [][Next]_vars

(***************************************************************************)
(* resolvePackageURI on its own: every URI of at most MaxUriLen characters *)
(* after an optional "package://", against every file system over Nodes.   *)
(***************************************************************************)
Uris == {p \o body : p \in {<<>>, PackagePrefix}, body \in SeqsUpTo({"/", "a", "b"}, MaxUriLen)}

InitResolve ==
    /\ pc = "resolve"
    /\ exitCode = -1
    /\ fault = "none"
    /\ data = Nil
    /\ robot = MkRobot(<<>>, <<>>)
    /\ i = 0
    /\ stdout = <<>>
    /\ oracleCalls = <<>>
    /\ fs \in FileSystems({"none", "dir", "stl"})
    /\ preFilter = Nil
    /\ output = Nil
    /\ uri = Nil
    /\ resolved = Nil
    /\ visited = 0

\* one call resolvePackageURI(u, baseDir), u any URI of the model
Resolve ==
    /\ pc = "resolve"
    /\ \E u \in Uris :
        /\ uri' = u
        /\ resolved' = Ptr(resolvePackageURI(u, fs))
        /\ visited' = WalkCallbacks(u, fs)
    /\ pc' = "resolved"
    /\ UNCHANGED <<exitCode, fault, data, robot, i, stdout, oracleCalls, fs, preFilter, output>>

SpecResolve == InitResolve /\ [][Resolve]_vars

(***************************************************************************)
(* C7: the fallback order of the Resource Locator                          *)
(***************************************************************************)
\* the URI has the form package://<package-name>/<rest>
IsPackageForm(u) == HasPrefix(u, PackagePrefix) /\ IndexSlash(TrimPrefix(u, PackagePrefix)) > 0

\* its <rest>
RestOf(u) ==
    SubSeq(TrimPrefix(u, PackagePrefix), IndexSlash(TrimPrefix(u, PackagePrefix)) + 1,
           Len(TrimPrefix(u, PackagePrefix)))

IsFileKind(k) == k \in {"stl", "junk"}

\* the positions, in traversal order, of the files whose path ends with rest
MatchPositions(f, rest) ==
    IF f[<<>>] = "none" THEN {}
    ELSE {k \in 1..Len(WalkOrder(f, <<>>)) :
            /\ IsFileKind(f[WalkOrder(f, <<>>)[k]])
            /\ HasSuffix(NodePath(WalkOrder(f, <<>>)[k]), rest)}

FirstMatch(f, rest) == CHOOSE k \in MatchPositions(f, rest) : \A j \in MatchPositions(f, rest) : k <= j

\* the result and the walk the claim describes for a package URI with this
\* rest, the direct path being taken when direct holds
FallbackOrder(f, rest, direct) ==
    IF direct THEN resolved = Ptr(Join(BaseDir, rest)) /\ visited = 0
    ELSE IF MatchPositions(f, rest) # {}
    THEN /\ resolved = Ptr(NodePath(WalkOrder(f, <<>>)[FirstMatch(f, rest)]))
         /\ visited = FirstMatch(f, rest)
    ELSE resolved = Ptr(Join(BaseDir, rest))

\* C7: for a URI package://<package-name>/<rest>, resolve returns
\* join(baseDir, rest) when a file exists there (whatever the path names,
\* a directory included: the test is that of os.Stat); otherwise the first
\* file met in traversal order whose path ends with rest, the walk stopping
\* at that match; otherwise, no file matching, join(baseDir, rest).  An
\* absolute path is returned unchanged and any other URI is joined to
\* baseDir.  (A package:// URI with no "/" after the scheme has no package
\* name to strip: all of its text after the scheme is its rest.)
C7_FallbackOrder ==
    pc = "resolved" =>
        IF IsPackageForm(uri)
        THEN FallbackOrder(fs, RestOf(uri), Lookup(fs, Join(BaseDir, RestOf(uri))) # "none")
        ELSE IF HasPrefix(uri, PackagePrefix)
        THEN FallbackOrder(fs, TrimPrefix(uri, PackagePrefix),
                           Lookup(fs, Join(BaseDir, TrimPrefix(uri, PackagePrefix))) # "none")
        ELSE IF IsAbs(uri) THEN resolved = Ptr(uri)
        ELSE resolved = Ptr(Join(BaseDir, uri))

\* a package URI whose direct path names nothing and that the walk resolved
\* to a file that is not the last one to match
C7_Witness ==
    /\ pc = "resolved"
    /\ IsPackageForm(uri)
    /\ Lookup(fs, Join(BaseDir, RestOf(uri))) = "none"
    /\ Cardinality(MatchPositions(fs, RestOf(uri))) > 1
    /\ resolved # Ptr(Join(BaseDir, RestOf(uri)))

(***************************************************************************)
(* The claims about a run of main.  Input is the document as parsed, Pre   *)
(* the robot as handed to filterToMainChain.                               *)
(***************************************************************************)
Input == Deref(data).robot
Pre == Deref(preFilter)
Filtered == ~IsNil(preFilter)

Indices(seq) == [k \in 1..Len(seq) |-> k]

\* name is the parent or the child of one of these joints
Touches(joints, name) ==
    \E k \in 1..Len(joints) :
        \/ ~IsNil(joints[k].Parent) /\ Deref(joints[k].Parent).Link = name
        \/ ~IsNil(joints[k].Child) /\ Deref(joints[k].Child).Link = name

Actuated(j) == j.Type \in {"revolute", "prismatic"}

OnChain(l) == Touches(SelectSeq(Pre.Joints, Actuated), l.Name)

\* C1: after filterToMainChain the joints are exactly the subsequence of the
\* input joints of type "revolute" or "prismatic", and the links exactly the
\* subsequence of the input links whose name is the parent or the child of
\* a retained joint, both in their original order.
C1_ChainFilter ==
    Filtered =>
        /\ robot.Joints = SelectSeq(Pre.Joints, Actuated)
        /\ robot.Links = SelectSeq(Pre.Links, OnChain)

\* a filter that dropped a joint of another type and a link, and kept one of each
C1_Witness ==
    /\ Filtered
    /\ \E k \in 1..Len(Pre.Joints) : Pre.Joints[k].Type \in {"continuous", "Revolute"}
    /\ Len(robot.Joints) > 0
    /\ Len(robot.Links) > 0
    /\ Len(robot.Links) < Len(Pre.Links)

\* C2: the Chain Filter is idempotent: applied to its own result it leaves
\* the same links and joints, in the same order.
C2_Idempotent == Filtered => filterToMainChain(robot) = robot

\* a filter that removed a link and a joint and left some of each
C2_Witness ==
    /\ Filtered
    /\ Len(robot.Links) > 0
    /\ Len(robot.Links) < Len(Pre.Links)
    /\ Len(robot.Joints) > 0
    /\ Len(robot.Joints) < Len(Pre.Joints)

LinkNamesOf(r) == {r.Links[k].Name : k \in 1..Len(r.Links)}

\* the parent or child reference e names a link among these names
Names1(e, names) == ~IsNil(e) /\ Deref(e).Link \in names

\* C9 as stated: after the Chain Filter the parent and the child of every
\* retained joint name links of the retained link list, a joint with a
\* dangling or absent reference having been pruned.
C9_AsStated ==
    Filtered =>
        \A k \in 1..Len(robot.Joints) :
            /\ Names1(robot.Joints[k].Parent, LinkNamesOf(robot))
            /\ Names1(robot.Joints[k].Child, LinkNamesOf(robot))

\* C9 amended: after the Chain Filter every parent or child reference of a
\* retained joint that names a link of the document names a link of the
\* retained link list; a revolute or prismatic joint whose reference is
\* dangling or absent is retained like any other, its reference unchanged.
C9_ReferentialIntegrity ==
    Filtered =>
        /\ \A k \in 1..Len(robot.Joints) :
              /\ Names1(robot.Joints[k].Parent, LinkNamesOf(Pre))
                    => Names1(robot.Joints[k].Parent, LinkNamesOf(robot))
              /\ Names1(robot.Joints[k].Child, LinkNamesOf(Pre))
                    => Names1(robot.Joints[k].Child, LinkNamesOf(robot))
        /\ \A k \in 1..Len(Pre.Joints) :
              Actuated(Pre.Joints[k]) => \E m \in 1..Len(robot.Joints) : robot.Joints[m] = Pre.Joints[k]

\* a retained joint with a dangling child and a parent that names a link
C9_Witness ==
    /\ Filtered
    /\ \E k \in 1..Len(robot.Joints) :
          /\ Names1(robot.Joints[k].Parent, LinkNamesOf(Pre))
          /\ ~Names1(robot.Joints[k].Child, LinkNamesOf(Pre))
          /\ ~IsNil(robot.Joints[k].Child)

Parsed == pc \in {"links", "write"} \/ (pc = "done" /\ fault \in {"none", "write"})

\* the robot whose links are as processLink left them: the robot itself
\* until filterToMainChain runs, Pre afterwards
Worked == IF Filtered THEN Pre ELSE robot

\* the links processLink has been called for
Done == IF Filtered THEN 1..Len(Pre.Links) ELSE 1..(i - 1)

HasMesh(c) == ~IsNil(c.Geometry) /\ ~IsNil(Deref(c.Geometry).Mesh)
HasBox(c) == ~IsNil(c.Geometry) /\ ~IsNil(Deref(c.Geometry).Box)

\* the Bounding-Box Oracle fails for this mesh reference
OracleFails(u) == CalculateBoundingBoxFromFile(fs, resolvePackageURI(u, fs)).err

MeshOf(c) == Deref(Deref(c.Geometry).Mesh).Filename

Count(seq, Test(_)) == Cardinality({k \in 1..Len(seq) : Test(seq[k])})

WarningsFor(li, k) ==
    Cardinality({m \in 1..Len(stdout) :
        stdout[m].kind = "Warning" /\ stdout[m].link = li /\ stdout[m].entry = k})

CallsFor(li, k) ==
    Cardinality({m \in 1..Len(oracleCalls) : oracleCalls[m].link = li /\ oracleCalls[m].entry = k})

\* C6: after processLink a link that had an Inertial block with an Origin has
\* that Origin as its own, whatever its own was; a link without an Inertial
\* block, or with one without Origin, has its Origin unchanged; in all cases
\* it has no Inertial block and no Visual entries.
C6_OriginRelocation ==
    Parsed =>
        \A li \in Done :
            /\ IF ~IsNil(Input.Links[li].Inertial) /\ ~IsNil(Deref(Input.Links[li].Inertial).Origin)
               THEN Worked.Links[li].Origin = Deref(Input.Links[li].Inertial).Origin
               ELSE Worked.Links[li].Origin = Input.Links[li].Origin
            /\ IsNil(Worked.Links[li].Inertial)
            /\ Len(Worked.Links[li].Visual) = 0

\* a processed link whose own Origin was overwritten by its inertial one,
\* and which had Visual entries
C6_Witness ==
    /\ Parsed
    /\ \E li \in Done :
          /\ ~IsNil(Input.Links[li].Inertial)
          /\ ~IsNil(Deref(Input.Links[li].Inertial).Origin)
          /\ ~IsNil(Input.Links[li].Origin)
          /\ Input.Links[li].Origin # Deref(Input.Links[li].Inertial).Origin
          /\ Len(Input.Links[li].Visual) > 0
          /\ Worked.Links[li].Origin = Deref(Input.Links[li].Inertial).Origin

\* C4: when the oracle fails for a mesh-backed collision entry, the entry
\* keeps its Mesh (no Box is created) and its Origin, exactly one warning is
\* printed for it and the oracle is called once for it; every other
\* mesh-backed entry of the link and of the later links is processed all
\* the same, once each: one the oracle succeeds on holds a Box and no Mesh.
C4_FailureIsolation ==
    Parsed =>
        \A li \in Done :
            /\ Len(Worked.Links[li].Collision) = Len(Input.Links[li].Collision)
            /\ \A k \in 1..Len(Input.Links[li].Collision) :
                  IF ~HasMesh(Input.Links[li].Collision[k])
                  THEN CallsFor(li, k) = 0 /\ WarningsFor(li, k) = 0
                  ELSE /\ CallsFor(li, k) = 1
                       /\ IF OracleFails(MeshOf(Input.Links[li].Collision[k]))
                          THEN /\ Worked.Links[li].Collision[k] = Input.Links[li].Collision[k]
                               /\ WarningsFor(li, k) = 1
                          ELSE /\ ~HasMesh(Worked.Links[li].Collision[k])
                               /\ HasBox(Worked.Links[li].Collision[k])
                               /\ WarningsFor(li, k) = 0

\* every link processed: a failure on the first entry of the first link, a
\* box on its second entry and a box on an entry of the second link
C4_Witness ==
    /\ Filtered
    /\ Len(Pre.Links) = 2
    /\ Len(Pre.Links[1].Collision) = 2
    /\ Len(Pre.Links[2].Collision) = 1
    /\ WarningsFor(1, 1) = 1
    /\ HasMesh(Pre.Links[1].Collision[1])
    /\ HasMesh(Input.Links[1].Collision[2]) /\ ~HasMesh(Pre.Links[1].Collision[2])
    /\ HasMesh(Input.Links[2].Collision[1]) /\ ~HasMesh(Pre.Links[2].Collision[1])

\* the elements with this tag among the children of an element
Children(el, tag) == SelectSeq(el.children, LAMBDA c : c.tag = tag)

\* the <geometry> elements inside the <collision> elements of the document
\* written, as the set of their positions <<link, collision, geometry>>
OutGeometries ==
    {p \in (1..MaxLinks + 1) \X (1..MaxColl + 1) \X {1} :
        /\ p[1] <= Len(Children(Deref(output), "link"))
        /\ p[2] <= Len(Children(Children(Deref(output), "link")[p[1]], "collision"))
        /\ p[3] <= Len(Children(Children(Children(Deref(output), "link")[p[1]], "collision")[p[2]],
                                "geometry"))}

OutGeometry(p) ==
    Children(Children(Children(Deref(output), "link")[p[1]], "collision")[p[2]], "geometry")[p[3]]

\* every mesh a collision geometry of the document refers to resolves to a
\* file the oracle succeeds on
AllMeshesOK ==
    \A li \in 1..Len(Input.Links) : \A k \in 1..Len(Input.Links[li].Collision) :
        HasMesh(Input.Links[li].Collision[k]) => ~OracleFails(MeshOf(Input.Links[li].Collision[k]))

RetainedIdx == SelectSeq(Indices(Pre.Links), LAMBDA li : OnChain(Pre.Links[li]))

\* the failed collision entry k of link li of the document is in the
\* output document, as link number j, unmodified: a mesh reference
PassedThrough(li, k, j) ==
    /\ j <= Len(Children(Deref(output), "link"))
    /\ k <= Len(Children(Children(Deref(output), "link")[j], "collision"))
    /\ Children(Children(Deref(output), "link")[j], "collision")[k]
           = XmlShape("collision", Input.Links[li].Collision[k])
    /\ Len(Children(OutGeometry(<<j, k, 1>>), "mesh")) = 1
    /\ Children(OutGeometry(<<j, k, 1>>), "mesh")[1].attrs[1].value = MeshOf(Input.Links[li].Collision[k])

Failed(li, k) ==
    HasMesh(Input.Links[li].Collision[k]) /\ OracleFails(MeshOf(Input.Links[li].Collision[k]))

\* C5 as stated: in a run that reaches serialization every collision
\* geometry whose mesh did not resolve or whose oracle call failed is in
\* the output as a Mesh reference, whatever link it belongs to.
C5_AsStated ==
    ~IsNil(output) =>
        \A li \in 1..Len(Input.Links) : \A k \in 1..Len(Input.Links[li].Collision) :
            Failed(li, k) => \E j \in 1..Len(Input.Links) : PassedThrough(li, k, j)

\* C5 amended: in a run that reaches serialization every such collision
\* geometry of a link the Chain Filter retains is in the output as a Mesh
\* reference, neither dropped nor replaced by a box; the ones of a link the
\* Chain Filter removes leave the output with their link.
C5_FailedMeshKept ==
    ~IsNil(output) =>
        /\ Len(Children(Deref(output), "link")) = Len(RetainedIdx)
        /\ \A j \in 1..Len(RetainedIdx) : \A k \in 1..Len(Input.Links[RetainedIdx[j]].Collision) :
              Failed(RetainedIdx[j], k) => PassedThrough(RetainedIdx[j], k, j)

\* a document written in which the second link, retained after the first
\* was removed, has a failed mesh
C5_Witness ==
    /\ ~IsNil(output)
    /\ Len(RetainedIdx) > 0
    /\ \E j \in 1..Len(RetainedIdx) : \E k \in 1..Len(Input.Links[RetainedIdx[j]].Collision) :
          Failed(RetainedIdx[j], k) /\ WarningsFor(RetainedIdx[j], k) = 1

Warnings == Count(stdout, LAMBDA m : m.kind = "Warning")

\* nothing after the parse has run
NothingProcessed ==
    /\ robot = MkRobot(<<>>, <<>>)
    /\ i = 0
    /\ oracleCalls = <<>>
    /\ ~Filtered
    /\ IsNil(output)

\* C8: the exit code is non-zero when the arguments are missing, the input
\* is unreadable, the document is malformed or the output is unwritable,
\* and the run stops at that step, no later step of the pipeline running;
\* it is 0 in every other run, whatever the number of per-mesh failures.
C8_ExitStatus ==
    /\ pc # "done" => exitCode = -1
    /\ pc = "done" =>
          /\ fault # "none" => exitCode # 0
          /\ fault = "none" => exitCode = 0 /\ ~IsNil(output)
          /\ fault = "args" => IsNil(data) /\ NothingProcessed /\ Len(stdout) = 1
          /\ fault = "read" => IsNil(data) /\ NothingProcessed /\ Len(stdout) = 1
          /\ fault = "parse" => ~IsNil(data) /\ NothingProcessed /\ Len(stdout) = 1
          /\ fault = "write" =>
                /\ IsNil(output)
                /\ stdout[Len(stdout)].kind = "Error writing output file"

\* a run that ended with exit code 0 after two per-mesh failures
C8_Witness == pc = "done" /\ exitCode = 0 /\ Warnings >= 2

\* exactly one of Mesh and Box is populated
OneOf(g) == IsNil(g.Mesh) # IsNil(g.Box)

ShapesOK(shapes) ==
    \A k \in 1..Len(shapes) : ~IsNil(shapes[k].Geometry) => OneOf(Deref(shapes[k].Geometry))

\* every Geometry of the robot has exactly one of Mesh and Box
TaggedUnion(r) ==
    \A li \in 1..Len(r.Links) : ShapesOK(r.Links[li].Visual) /\ ShapesOK(r.Links[li].Collision)

\* and so has every <geometry> of the document written
TaggedUnionOut == \A p \in OutGeometries : Len(OutGeometry(p).children) = 1

\* C10 as stated: from the parsed model to the serialized output every
\* Geometry has exactly one of Mesh and Box populated, never both and never
\* neither.
C10_AsStated ==
    Parsed => TaggedUnion(Input) /\ TaggedUnion(robot) /\ (~IsNil(output) => TaggedUnionOut)

\* C10 amended: when every Geometry of the parsed document has exactly one
\* of Mesh and Box populated, every Geometry has exactly one in every later
\* state, through simplification (oracle success or failure) and filtering
\* to the serialized output.  The parse does not establish it: a <geometry>
\* with neither child, or with a child of another kind, parses to neither,
\* one with both children to both.
C10_TaggedUnion ==
    (Parsed /\ TaggedUnion(Input)) =>
        /\ TaggedUnion(robot)
        /\ Filtered => TaggedUnion(Pre)
        /\ ~IsNil(output) => TaggedUnionOut

\* a document written, every Geometry of the input with exactly one of the
\* two, with one oracle failure and one success on retained links
C10_Witness ==
    /\ ~IsNil(output)
    /\ TaggedUnion(Input)
    /\ Warnings = 1
    /\ \E p \in OutGeometries : Len(Children(OutGeometry(p), "mesh")) = 1
    /\ \E p \in OutGeometries :
          /\ Len(Children(OutGeometry(p), "box")) = 1
          /\ HasMesh(Input.Links[RetainedIdx[p[1]]].Collision[p[2]])

====
